---- MODULE Spec2Model ----
(***************************************************************************)
(* Model of the Christmas gift bot (src/index.js): the drop lifecycle, the *)
(* claim arbitration of the button handler, the two expiry timers of every *)
(* drop and the snapshot file the in-memory storage is mirrored to.        *)
(*                                                                         *)
(* JavaScript runs each callback to its next await without interleaving,   *)
(* so one action is one synchronous stretch of a handler: an action ends   *)
(* where the code awaits.                                                  *)
(***************************************************************************)
EXTENDS Integers, FiniteSets, TLC

(* ------------------------------ bounds -------------------------------- *)
NumMembers == 2      \* guild members that click
MaxDrops == 1        \* drops created over a behaviour
MaxHandlers == 2     \* button interactions in flight at once
MaxDiskFaults == 1    \* snapshot writes that fail over a behaviour with restarts
MaxBoots == 1        \* process restarts over a behaviour
NumChannels == 1     \* text channels the owner can pick for automatic drops
MaxFirings == 2      \* firings of the scheduler over a behaviour
MaxOldDrops == 1     \* drops of an earlier run in the snapshot a process starts on

(* ------------------------- program constants -------------------------- *)
DROP_EXPIRE_HOURS == 48
DROP_MESSAGE_LIFETIME_MS == 10 * 1000
NumBoxes == 4
NumReal == 2

ExpireMs == DROP_EXPIRE_HOURS * 60 * 60 * 1000

Members == 1..NumMembers
NewDropIds == 1..MaxDrops                              \* ids this run generates
OldDropIds == (MaxDrops + 1)..(MaxDrops + MaxOldDrops)   \* ids of an earlier run
DropIds == NewDropIds \cup OldDropIds
Handlers == 1..MaxHandlers
Boxes == 0..(NumBoxes - 1)

NoMember == 0        \* collectedBy[boxId] is undefined
NoTimer == -1        \* no setTimeout pending
NoChannel == 0       \* dropChannelId is null
Channels == 1..NumChannels

Outcomes == {"DropNotFound", "DropExpired", "SlotAlreadyClaimed",
             "MemberAlreadyClaimed", "Prize", "Trollbox"}
Success == {"Prize", "Trollbox"}

VARIABLES
    now,          \* Date.now()
    userCounts,   \* storage.userCounts: member -> count (0: no key)
    activeDrops,  \* storage.activeDrops: a function on the ids of the live drops
    disk,         \* the snapshot file at storagePath
    diskFaults,   \* snapshot writes that can still fail
    created,      \* drop ids generated so far (ids are 1..created)
    expiresAt,    \* per drop id: the expiresAt its sendGiftDrop call computed
    sendPc,       \* per drop id: where its sendGiftDrop call stands
    shown,        \* per drop id: its message was posted (its buttons exist)
    visTimer,     \* per drop id: due time of the message-lifetime timer
    valTimer,     \* per drop id: due time of the safety expiry timer
    hs,           \* per handler: the button interaction it is serving
    boots,        \* process restarts so far
    botSettings,      \* storage.botSettings
    DROP_CHANNEL_ID,  \* process.env.DROP_CHANNEL_ID (NoChannel: not set)
    ready,            \* where the ready handler of the process stands
    schedTimers,      \* due times of the pending scheduleNextDrop timers
    sched,            \* the scheduler firing in flight
    fired             \* scheduler firings so far

\* What the settings, the startup and the scheduler add to the state.
svars == <<botSettings, DROP_CHANNEL_ID, ready, schedTimers, sched, fired>>

vars == <<now, userCounts, activeDrops, disk, diskFaults, created, expiresAt, sendPc,
          shown, visTimer, valTimer, hs, boots, botSettings, DROP_CHANNEL_ID, ready,
          schedTimers, sched, fired>>

(* ------------------------------ helpers ------------------------------- *)
Max(a, b) == IF a >= b THEN a ELSE b

\* delete storage.activeDrops[dropId]
Remove(ad, d) == [x \in (DOMAIN ad) \ {d} |-> ad[x]]

\* storage.activeDrops[dropId] = rec
Put(ad, d, rec) == [x \in (DOMAIN ad) \cup {d} |-> IF x = d THEN rec ELSE ad[x]]

IdleHandler == [pc |-> "idle", dropId |-> 0, boxIndex |-> 0, member |-> NoMember,
                outcome |-> "none"]

(* ------------------------------ storage ------------------------------- *)
defaultUserCounts == [m \in Members |-> 0]
defaultActiveDrops == [x \in {} |-> 0]

\* Lines 54-57: the settings a process starts with, from its environment.
defaultBotSettings(envChannel) ==
    [autoDropEnabled |-> envChannel # NoChannel, dropChannelId |-> envChannel]

\* storage.botSettings after a document with "botSettings": null was loaded.
NullSettings == [null |-> TRUE]

\* Lines 51-58: the storage of a process that has loaded nothing yet.
defaultStorage(envChannel) ==
    [userCounts |-> defaultUserCounts, activeDrops |-> defaultActiveDrops,
     botSettings |-> defaultBotSettings(envChannel)]

\* The three sub-trees of the snapshot document.
SubTrees == {"userCounts", "activeDrops", "botSettings"}

\* JSON.stringify of the storage: every sub-tree is written with its value.
\* The values are numbers, strings, arrays and plain objects, which
\* JSON.parse gives back as they were; null settings are written as null.
stringify(uc, ad, bs) ==
    [file |-> "ok", userCounts |-> uc, activeDrops |-> ad, botSettings |-> bs,
     form |-> [k \in SubTrees |-> IF k = "botSettings" /\ bs = NullSettings
                                  THEN "null" ELSE "value"]]

\* No file at storagePath.
NoFile ==
    [file |-> "none", userCounts |-> defaultUserCounts,
     activeDrops |-> defaultActiveDrops, botSettings |-> NullSettings,
     form |-> [k \in SubTrees |-> "missing"]]

\* The sub-trees of the document assigned only where the storage has none.
loadStorageKeepsMemory(file, st) ==
    IF file.file = "ok"
    THEN [userCounts |-> IF st.userCounts # defaultUserCounts
                         THEN st.userCounts ELSE file.userCounts,
          activeDrops |-> IF st.activeDrops # defaultActiveDrops
                          THEN st.activeDrops ELSE file.activeDrops,
          botSettings |-> st.botSettings]
    ELSE st

\* Lines 60-76 on the storage st of the process: Object.assign puts every
\* sub-tree the parsed document has in the place of the one in memory, a
\* null one included; lines 67-69 then replace a null userCounts or
\* activeDrops by {} and leave botSettings as it is. Without a file, or with
\* one that does not parse, the storage stays as it was.
loadStorage(file, st) ==
    IF file.file = "ok"
    THEN [userCounts |->
              CASE file.form["userCounts"] = "value" -> file.userCounts
                [] file.form["userCounts"] = "null" -> defaultUserCounts
                [] OTHER -> st.userCounts,
          activeDrops |->
              CASE file.form["activeDrops"] = "value" -> file.activeDrops
                [] file.form["activeDrops"] = "null" -> defaultActiveDrops
                [] OTHER -> st.activeDrops,
          botSettings |->
              CASE file.form["botSettings"] = "value" -> file.botSettings
                [] file.form["botSettings"] = "null" -> NullSettings
                [] OTHER -> st.botSettings]
    ELSE st

\* What fs.writeFileSync leaves at storagePath: the whole storage when the
\* write succeeds, the previous file when it throws (the error is logged).
saveStorage(uc, ad, bs, ok) ==
    IF ok THEN stringify(uc, ad, bs)
    ELSE disk

\* A call of saveStorage inside an action: the write succeeds or fails.
SaveAll(uc, ad, bs) ==
    \E ok \in BOOLEAN :
        /\ ok \/ diskFaults > 0
        /\ disk' = saveStorage(uc, ad, bs, ok)
        /\ diskFaults' = IF ok THEN diskFaults ELSE diskFaults - 1

\* saveStorage called by the code of the drops, which leaves the settings.
Save(uc, ad) == SaveAll(uc, ad, botSettings)

(* --------------------------- sendGiftDrop ----------------------------- *)
\* The exchange written as the single assignment idx[i] = idx[j].
SwapOverwrites(idx, i, j) == [idx EXCEPT ![i] = idx[j]]

\* [idx[i], idx[j]] = [idx[j], idx[i]]
Swap(idx, i, j) == [idx EXCEPT ![i] = idx[j], ![j] = idx[i]]

\* The shuffle loop for i = 3, 2, 1 with j drawn from 0..i.
Shuffle(j3, j2, j1) ==
    Swap(Swap(Swap([i \in Boxes |-> i], 3, j3), 2, j2), 1, j1)

\* idx.slice(0, 2), as the set of box indices validBoxes.includes accepts
realIndices(idx) == {idx[i] : i \in 0..(NumReal - 1)}

\* A drop as line 199 registers it: no box collected, no message yet.
NewDrop(t, idx) ==
    [expiresAt |-> t + ExpireMs,
     validBoxes |-> realIndices(idx),
     collectedBy |-> [b \in Boxes |-> NoMember],
     messageId |-> FALSE]

\* Lines 189-225: a fresh id, the shuffle, the drop registered in memory
\* only, and channel.send issued; the call then awaits the send.
sendGiftDrop(j3, j2, j1) ==
    /\ created < MaxDrops
    /\ created' = created + 1
    /\ activeDrops' = Put(activeDrops, created + 1, NewDrop(now, Shuffle(j3, j2, j1)))
    /\ expiresAt' = [expiresAt EXCEPT ![created + 1] = now + ExpireMs]
    /\ sendPc' = [sendPc EXCEPT ![created + 1] = "sending"]
    /\ UNCHANGED <<now, userCounts, disk, diskFaults, shown, visTimer, valTimer,
                   hs, boots>>

\* Lines 410-423: /drop or /force_drop calls sendGiftDrop for its channel.
SendGiftDropStart(j3, j2, j1) ==
    /\ sendGiftDrop(j3, j2, j1)
    /\ UNCHANGED svars

\* The platform posts the message: its four buttons can be clicked from here
\* on, while the call is still waiting for channel.send to resolve.
MessagePosted(d) ==
    /\ sendPc[d] = "sending"
    /\ sendPc' = [sendPc EXCEPT ![d] = "sent"]
    /\ shown' = [shown EXCEPT ![d] = TRUE]
    /\ UNCHANGED <<now, userCounts, activeDrops, disk, diskFaults, created, expiresAt,
                   visTimer, valTimer, hs, boots>>
    /\ UNCHANGED svars

\* channel.send rejects, before the message was posted or after it (the
\* response is lost): the catch of line 256 logs and the call returns.
SendRejected(d) ==
    /\ sendPc[d] \in {"sending", "sent"}
    /\ sendPc' = [sendPc EXCEPT ![d] = "failed"]
    /\ UNCHANGED <<now, userCounts, activeDrops, disk, diskFaults, created, expiresAt,
                   shown, visTimer, valTimer, hs, boots>>
    /\ UNCHANGED svars

\* Lines 226-255 after the send resolved: the message reference is stored,
\* the storage saved and both timers armed. If the drop is gone by then,
\* line 226 throws on undefined and the catch of line 256 ends the call.
SendGiftDropResume(d) ==
    /\ sendPc[d] = "sent"
    /\ IF d \in DOMAIN activeDrops
       THEN /\ activeDrops' = [activeDrops EXCEPT ![d].messageId = TRUE]
            /\ Save(userCounts, activeDrops')
            /\ visTimer' = [visTimer EXCEPT ![d] = now + DROP_MESSAGE_LIFETIME_MS]
            /\ valTimer' = [valTimer EXCEPT
                   ![d] = now + Max(0, expiresAt[d] - now)]
            /\ sendPc' = [sendPc EXCEPT ![d] = "done"]
       ELSE /\ sendPc' = [sendPc EXCEPT ![d] = "failed"]
            /\ UNCHANGED <<activeDrops, disk, diskFaults, visTimer, valTimer>>
    /\ UNCHANGED <<now, userCounts, created, expiresAt, shown, hs, boots>>
    /\ UNCHANGED svars

\* Lines 231-244: the message-lifetime timer. The drop is deleted and the
\* storage saved only if the drop is still there. The message is deleted
\* after two more awaits, and not at all when the fetch or the delete fails
\* (both are swallowed): its buttons can still be clicked.
VisibilityTimer(d) ==
    /\ visTimer[d] # NoTimer
    /\ now >= visTimer[d]
    /\ visTimer' = [visTimer EXCEPT ![d] = NoTimer]
    /\ IF d \in DOMAIN activeDrops
       THEN /\ activeDrops' = Remove(activeDrops, d)
            /\ Save(userCounts, activeDrops')
       ELSE UNCHANGED <<activeDrops, disk, diskFaults>>
    /\ UNCHANGED <<now, userCounts, created, expiresAt, sendPc, shown, valTimer, hs, boots>>
    /\ UNCHANGED svars

\* The safety expiry timer deleting and saving without looking for the drop.
ValidityTimerAlwaysSaves(d) ==
    /\ valTimer[d] # NoTimer
    /\ now >= valTimer[d]
    /\ valTimer' = [valTimer EXCEPT ![d] = NoTimer]
    /\ activeDrops' = Remove(activeDrops, d)
    /\ Save(userCounts, activeDrops')
    /\ UNCHANGED <<now, userCounts, created, expiresAt, sendPc, shown, visTimer, hs, boots>>
    /\ UNCHANGED svars

\* Lines 247-253: the safety expiry timer.
ValidityTimer(d) ==
    /\ valTimer[d] # NoTimer
    /\ now >= valTimer[d]
    /\ valTimer' = [valTimer EXCEPT ![d] = NoTimer]
    /\ IF d \in DOMAIN activeDrops
       THEN /\ activeDrops' = Remove(activeDrops, d)
            /\ Save(userCounts, activeDrops')
       ELSE UNCHANGED <<activeDrops, disk, diskFaults>>
    /\ UNCHANGED <<now, userCounts, created, expiresAt, sendPc, shown, visTimer, hs, boots>>
    /\ UNCHANGED svars

(* ------------------- interactionCreate: the buttons -------------------- *)
\* The expiry check left out: a drop never counts as expired.
ExpiredNever(drop, t) == FALSE

\* Line 271: Date.now() > drop.expiresAt
Expired(drop, t) == t > drop.expiresAt

\* The check of the clicked box left out.
BoxCollectedNever(drop, boxIndex) == FALSE

\* Line 276: drop.collectedBy[boxId] is set
BoxCollected(drop, boxIndex) == drop.collectedBy[boxIndex] # NoMember

\* The member looked up among the keys of collectedBy (the box ids), where
\* no member id is ever found.
alreadyClaimedKeys(drop, member) == member \in {b \in Boxes : b < 0}

\* Line 283: Object.values(drop.collectedBy).includes(member.id)
alreadyClaimed(drop, member) == \E b \in Boxes : drop.collectedBy[b] = member

\* The box index looked up in validBoxes without its box_ prefix: never found.
isRealNever(drop, boxIndex) == FALSE

\* Line 289: drop.validBoxes.includes(boxId)
isReal(drop, boxIndex) == boxIndex \in drop.validBoxes

\* The lookup of line 270 left out: the click goes on with the drop its
\* button names.
ClaimOutcomeNoLookup(ad, d, boxIndex, member, t) ==
    IF d \notin DOMAIN ad THEN "Trollbox"
    ELSE IF t > ad[d].expiresAt THEN "DropExpired"
    ELSE IF ad[d].collectedBy[boxIndex] # NoMember THEN "SlotAlreadyClaimed"
    ELSE IF \E b \in Boxes : ad[d].collectedBy[b] = member THEN "MemberAlreadyClaimed"
    ELSE IF boxIndex \in ad[d].validBoxes THEN "Prize"
    ELSE "Trollbox"

\* The member check made before the check of the clicked box.
ClaimOutcomeMemberFirst(ad, d, boxIndex, member, t) ==
    IF d \notin DOMAIN ad THEN "DropNotFound"
    ELSE IF t > ad[d].expiresAt THEN "DropExpired"
    ELSE IF \E b \in Boxes : ad[d].collectedBy[b] = member THEN "MemberAlreadyClaimed"
    ELSE IF ad[d].collectedBy[boxIndex] # NoMember THEN "SlotAlreadyClaimed"
    ELSE IF boxIndex \in ad[d].validBoxes THEN "Prize"
    ELSE "Trollbox"

\* Lines 269-295: the checks of a click in the order of the code, each one
\* returning before the next is evaluated.
ClaimOutcome(ad, d, boxIndex, member, t) ==
    IF d \notin DOMAIN ad THEN "DropNotFound"
    ELSE IF Expired(ad[d], t) THEN "DropExpired"
    ELSE IF BoxCollected(ad[d], boxIndex) THEN "SlotAlreadyClaimed"
    ELSE IF alreadyClaimed(ad[d], member) THEN "MemberAlreadyClaimed"
    ELSE IF isReal(ad[d], boxIndex) THEN "Prize"
    ELSE "Trollbox"

\* The box marked under its index alone, in every drop of the active set.
CollectedInEveryDrop(ad, d, boxIndex, member) ==
    [x \in DOMAIN ad |-> [ad[x] EXCEPT !.collectedBy[boxIndex] = member]]

\* Line 292: drop.collectedBy[boxId] = member.id
Collected(ad, d, boxIndex, member) ==
    [ad EXCEPT ![d].collectedBy[boxIndex] = member]

\* Line 296: storage.userCounts[member.id] = (... || 0) + 1
Counted(uc, member) == [uc EXCEPT ![member] = @ + 1]

\* Where the handler waits after its first synchronous stretch: for its
\* reply (a rejected click returns it, a real box goes on to edit the
\* message after it), or for ensureSantaRole on a troll box.
AwaitAfter(outcome) ==
    IF outcome = "Prize" THEN "replyThenEdit"
    ELSE IF outcome = "Trollbox" THEN "role"
    ELSE "reply"

\* Lines 292-293 the other way round: the storage is saved, then the box is
\* marked.
CollectSavesFirst(h, d, boxIndex, member) ==
    /\ hs[h].pc = "idle"
    /\ \A g \in Handlers : g < h => hs[g].pc # "idle"
    /\ ready \in {"registering", "up"}
    /\ shown[d]
    /\ LET outcome == ClaimOutcome(activeDrops, d, boxIndex, member, now) IN
       /\ hs' = [hs EXCEPT ![h] = [pc |-> AwaitAfter(outcome), dropId |-> d,
                                   boxIndex |-> boxIndex, member |-> member,
                                   outcome |-> outcome]]
       /\ IF outcome = "DropExpired"
          THEN /\ activeDrops' = Remove(activeDrops, d)
               /\ Save(userCounts, activeDrops')
               /\ UNCHANGED userCounts
          ELSE IF outcome \in Success
          THEN /\ Save(userCounts, activeDrops)
               /\ activeDrops' = Collected(activeDrops, d, boxIndex, member)
               /\ userCounts' = IF outcome = "Prize"
                                THEN Counted(userCounts, member)
                                ELSE userCounts
          ELSE UNCHANGED <<userCounts, activeDrops, disk, diskFaults>>
    /\ UNCHANGED <<now, created, expiresAt, sendPc, shown, visTimer, valTimer, boots>>
    /\ UNCHANGED svars

\* Lines 264-304 up to the first await: a member clicks button boxIndex of
\* drop d. A button exists only on a message that was posted; a click may
\* still arrive after the message was deleted.
Collect(h, d, boxIndex, member) ==
    /\ hs[h].pc = "idle"
    /\ \A g \in Handlers : g < h => hs[g].pc # "idle"
    /\ ready \in {"registering", "up"}
    /\ shown[d]
    /\ LET outcome == ClaimOutcome(activeDrops, d, boxIndex, member, now) IN
       /\ hs' = [hs EXCEPT ![h] = [pc |-> AwaitAfter(outcome), dropId |-> d,
                                   boxIndex |-> boxIndex, member |-> member,
                                   outcome |-> outcome]]
       /\ IF outcome = "DropExpired"
          THEN /\ activeDrops' = Remove(activeDrops, d)
               /\ Save(userCounts, activeDrops')
               /\ UNCHANGED userCounts
          ELSE IF outcome \in Success
          THEN /\ activeDrops' = Collected(activeDrops, d, boxIndex, member)
               /\ Save(userCounts, activeDrops')
               /\ userCounts' = IF outcome = "Prize"
                                THEN Counted(userCounts, member)
                                ELSE userCounts
          ELSE UNCHANGED <<userCounts, activeDrops, disk, diskFaults>>
    /\ UNCHANGED <<now, created, expiresAt, sendPc, shown, visTimer, valTimer, boots>>
    /\ UNCHANGED svars

\* Lines 304-330: ensureSantaRole and member.roles.add have finished. With
\* the role assigned the handler replies and goes on to edit the message;
\* without a role, under the role hierarchy or on a failed assignment it
\* returns its reply.
RoleDone(h, assigned) ==
    /\ hs[h].pc = "role"
    /\ hs' = [hs EXCEPT ![h].pc = IF assigned THEN "replyThenEdit" ELSE "reply"]
    /\ UNCHANGED <<now, userCounts, activeDrops, disk, diskFaults, created, expiresAt,
                   sendPc, shown, visTimer, valTimer, boots>>
    /\ UNCHANGED svars

\* interaction.reply has settled. A returned reply ends the handler, and so
\* does a reply that throws (the catch of line 452); otherwise lines 334-359
\* fetch the message to disable the button.
ReplyDone(h, threw) ==
    /\ hs[h].pc \in {"reply", "replyThenEdit"}
    /\ hs' = [hs EXCEPT ![h] = IF hs[h].pc = "replyThenEdit" /\ ~threw
                               THEN [@ EXCEPT !.pc = "edit"]
                               ELSE IdleHandler]
    /\ UNCHANGED <<now, userCounts, activeDrops, disk, diskFaults, created, expiresAt,
                   sendPc, shown, visTimer, valTimer, boots>>
    /\ UNCHANGED svars

\* Lines 334-361: the button is disabled on the message, or the fetch or the
\* edit fails and is swallowed; the storage is not touched either way.
EditDone(h) ==
    /\ hs[h].pc = "edit"
    /\ hs' = [hs EXCEPT ![h] = IdleHandler]
    /\ UNCHANGED <<now, userCounts, activeDrops, disk, diskFaults, created, expiresAt,
                   sendPc, shown, visTimer, valTimer, boots>>
    /\ UNCHANGED svars

(* ------------------- interactionCreate: the commands ------------------- *)
\* storage.botSettings = storage.botSettings || {} (lines 430, 446), with
\* the fields an empty object lacks read as undefined.
SettingsOrEmpty(bs) ==
    IF bs = NullSettings
    THEN [autoDropEnabled |-> FALSE, dropChannelId |-> NoChannel]
    ELSE bs

\* Lines 444-450: /toggle_auto flips autoDropEnabled and saves; anyone but
\* the owner is only answered.
ToggleAuto(isOwner) ==
    /\ ready \in {"registering", "up"}
    /\ IF isOwner
       THEN /\ botSettings' = [SettingsOrEmpty(botSettings) EXCEPT
                                  !.autoDropEnabled = ~@]
            /\ SaveAll(userCounts, activeDrops, botSettings')
       ELSE UNCHANGED <<botSettings, disk, diskFaults>>
    /\ UNCHANGED <<now, userCounts, activeDrops, created, expiresAt, sendPc, shown,
                   visTimer, valTimer, hs, boots, DROP_CHANNEL_ID, ready,
                   schedTimers, sched, fired>>

\* Lines 426-435: /set_drop_channel stores the channel, turns automatic
\* drops on and saves. channel.isText() answers yes or no, or throws where
\* the library has no such method (the catch of line 452 then answers).
\* Nothing here calls scheduleNextDrop.
SetDropChannel(isOwner, channel, isText) ==
    /\ ready \in {"registering", "up"}
    /\ IF isOwner /\ isText = "yes"
       THEN /\ botSettings' = [autoDropEnabled |-> TRUE, dropChannelId |-> channel]
            /\ SaveAll(userCounts, activeDrops, botSettings')
       ELSE UNCHANGED <<botSettings, disk, diskFaults>>
    /\ UNCHANGED <<now, userCounts, activeDrops, created, expiresAt, sendPc, shown,
                   visTimer, valTimer, hs, boots, DROP_CHANNEL_ID, ready,
                   schedTimers, sched, fired>>

\* /reset_counts that empties the mapping and does not save it.
ResetCountsUnsaved(isOwner) ==
    /\ ready \in {"registering", "up"}
    /\ userCounts' = IF isOwner THEN defaultUserCounts ELSE userCounts
    /\ UNCHANGED <<now, activeDrops, disk, diskFaults, created, expiresAt, sendPc,
                   shown, visTimer, valTimer, hs, boots>>
    /\ UNCHANGED svars

\* Lines 437-442: /reset_counts empties storage.userCounts and saves.
ResetCounts(isOwner) ==
    /\ ready \in {"registering", "up"}
    /\ IF isOwner
       THEN /\ userCounts' = defaultUserCounts
            /\ SaveAll(userCounts', activeDrops, botSettings)
       ELSE UNCHANGED <<userCounts, disk, diskFaults>>
    /\ UNCHANGED <<now, activeDrops, created, expiresAt, sendPc, shown, visTimer,
                   valTimer, hs, boots>>
    /\ UNCHANGED svars

(* ----------------------- ready and the scheduler ----------------------- *)
\* randInt(5, 10) of line 473, at its two ends.
SchedMinutes == {5, 10}

\* Lines 473-476: the due time of the timer scheduleNextDrop arms.
scheduleNextDrop(minutes) == now + minutes * 60 * 1000

IdleScheduler == [pc |-> "idle", dropId |-> 0, due |-> 0]

\* The storage of the process as one record.
Storage ==
    [userCounts |-> userCounts, activeDrops |-> activeDrops,
     botSettings |-> botSettings]

\* Lines 459-462: ready loads the storage again (a missing or unparsable
\* file is written over) and awaits registerCommands.
Ready ==
    /\ ready = "login"
    /\ ready' = "registering"
    /\ LET st == loadStorage(disk, Storage)
       IN /\ userCounts' = st.userCounts
          /\ activeDrops' = st.activeDrops
          /\ botSettings' = st.botSettings
    /\ IF disk.file = "ok"
       THEN UNCHANGED <<disk, diskFaults>>
       ELSE SaveAll(userCounts', activeDrops', botSettings')
    /\ UNCHANGED <<now, created, expiresAt, sendPc, shown, visTimer, valTimer, hs,
                   boots, DROP_CHANNEL_ID, schedTimers, sched, fired>>

\* Lines 463-469: registerCommands has returned (it swallows its errors).
\* The scheduler is armed if automatic drops are on and a channel is set;
\* on null settings line 463 throws and the handler ends there.
ReadyResume(minutes) ==
    /\ ready = "registering"
    /\ IF botSettings = NullSettings
       THEN /\ ready' = "faulted"
            /\ UNCHANGED schedTimers
       ELSE /\ ready' = "up"
            /\ schedTimers' =
                  IF botSettings.autoDropEnabled /\ botSettings.dropChannelId # NoChannel
                  THEN schedTimers \cup {scheduleNextDrop(minutes)}
                  ELSE schedTimers
    /\ UNCHANGED <<now, userCounts, activeDrops, disk, diskFaults, created, expiresAt,
                   sendPc, shown, visTimer, valTimer, hs, boots, botSettings,
                   DROP_CHANNEL_ID, sched, fired>>

\* The re-arming written so that it follows a drop that was sent, and
\* nothing else.
AfterFiringOnSuccess(timers, minutes, outcome) ==
    IF outcome = "sent" THEN timers \cup {scheduleNextDrop(minutes)} ELSE timers

\* Lines 491-493: the finally of the timer callback calls scheduleNextDrop,
\* however the firing went.
AfterFiring(timers, minutes, outcome) == timers \cup {scheduleNextDrop(minutes)}

\* Lines 476-480: a scheduleNextDrop timer fires and reads dropChannelId,
\* and nothing else of the settings. Without a channel (or with null
\* settings, where line 478 throws into the catch) the firing is over and
\* the finally arms the next timer; with one, the callback looks the channel
\* up, from the cache or by the awaited fetch (the model takes the await,
\* which allows every interleaving the cache allows).
SchedulerFire(t, minutes) ==
    /\ t \in schedTimers
    /\ now >= t
    /\ fired < MaxFirings
    /\ fired' = fired + 1
    /\ IF botSettings = NullSettings \/ botSettings.dropChannelId = NoChannel
       THEN /\ schedTimers' = AfterFiring(schedTimers \ {t}, minutes, "noChannel")
            /\ sched' = IdleScheduler
       ELSE /\ schedTimers' = schedTimers \ {t}
            /\ sched' = [IdleScheduler EXCEPT !.pc = "fetching"]
    /\ UNCHANGED <<now, userCounts, activeDrops, disk, diskFaults, created, expiresAt,
                   sendPc, shown, visTimer, valTimer, hs, boots, botSettings,
                   DROP_CHANNEL_ID, ready>>

\* Lines 483-484 without a drop: the channel is not found, ch.isText()
\* answers no, or it throws into the catch of line 489; the finally arms the
\* next timer.
SchedulerSkip(minutes, outcome) ==
    /\ sched.pc = "fetching"
    /\ outcome \in {"noFetch", "notText", "threw"}
    /\ schedTimers' = AfterFiring(schedTimers, minutes, outcome)
    /\ sched' = IdleScheduler
    /\ UNCHANGED <<now, userCounts, activeDrops, disk, diskFaults, created, expiresAt,
                   sendPc, shown, visTimer, valTimer, hs, boots, botSettings,
                   DROP_CHANNEL_ID, ready, fired>>

\* Lines 484-485: the channel is a text channel and the callback calls
\* sendGiftDrop, which it awaits.
SchedulerSend(j3, j2, j1) ==
    /\ sched.pc = "fetching"
    /\ sendGiftDrop(j3, j2, j1)
    /\ sched' = [sched EXCEPT !.pc = "sending", !.dropId = created + 1]
    /\ UNCHANGED <<botSettings, DROP_CHANNEL_ID, ready, schedTimers, fired>>

\* Line 486: sendGiftDrop has returned, sent or not, and the callback sleeps
\* for 500 ms.
SchedulerSent ==
    /\ sched.pc = "sending"
    /\ sendPc[sched.dropId] \in {"done", "failed"}
    /\ sched' = [sched EXCEPT !.pc = "sleeping", !.due = now + 500]
    /\ UNCHANGED <<now, userCounts, activeDrops, disk, diskFaults, created, expiresAt,
                   sendPc, shown, visTimer, valTimer, hs, boots, botSettings,
                   DROP_CHANNEL_ID, ready, schedTimers, fired>>

\* Lines 487-493: the sleep is over, the loop over the guilds ends and the
\* finally arms the next timer.
SchedulerSlept(minutes) ==
    /\ sched.pc = "sleeping"
    /\ now >= sched.due
    /\ schedTimers' = AfterFiring(schedTimers, minutes,
                         IF sendPc[sched.dropId] = "done" THEN "sent" ELSE "failed")
    /\ sched' = IdleScheduler
    /\ UNCHANGED <<now, userCounts, activeDrops, disk, diskFaults, created, expiresAt,
                   sendPc, shown, visTimer, valTimer, hs, boots, botSettings,
                   DROP_CHANNEL_ID, ready, fired>>

(* --------------------------- the environment --------------------------- *)
\* The timers that are pending, as their due times.
PendingTimers ==
    {visTimer[d] : d \in {x \in DropIds : visTimer[x] # NoTimer}}
        \cup {valTimer[d] : d \in {x \in DropIds : valTimer[x] # NoTimer}}
        \cup schedTimers
        \cup (IF sched.pc = "sleeping" THEN {sched.due} ELSE {})

\* The instants at which the passing of time can change what the program
\* does: a pending timer becomes due, or the validity window of a drop has
\* just elapsed (line 271 compares with >).
Deadlines ==
    PendingTimers \cup {expiresAt[d] + 1 : d \in {x \in DropIds : expiresAt[x] # 0}}

\* Time passes, up to one of these instants. The event loop is not held up:
\* a timer that is due runs before the clock reaches a later instant, and
\* no channel.send stays pending until the validity window of its drop (48
\* hours) has elapsed.
Advance(t) ==
    /\ t > now
    /\ \A due \in PendingTimers : t <= due
    /\ \A d \in DropIds : sendPc[d] \in {"sending", "sent"} => t <= expiresAt[d]
    /\ now' = t
    /\ UNCHANGED <<userCounts, activeDrops, disk, diskFaults, created, expiresAt,
                   sendPc, shown, visTimer, valTimer, hs, boots>>
    /\ UNCHANGED svars

\* The process dies and is started again (lines 51-58, 499, 459-470): every
\* pending timer and every handler in flight is lost with it, the storage is
\* read back from the snapshot file, and a missing file is written first.
\* The settings it starts with have automatic drops off, so the ready
\* handler arms nothing.
Restart ==
    /\ boots < MaxBoots
    /\ boots' = boots + 1
    /\ ready = "up"
    /\ LET st == loadStorage(disk, defaultStorage(DROP_CHANNEL_ID))
       IN /\ st.botSettings # NullSettings
          /\ ~st.botSettings.autoDropEnabled
          /\ userCounts' = st.userCounts
          /\ activeDrops' = st.activeDrops
          /\ botSettings' = st.botSettings
    /\ IF disk.file = "ok"
       THEN UNCHANGED <<disk, diskFaults>>
       ELSE SaveAll(userCounts', activeDrops', botSettings')
    /\ hs' = [h \in Handlers |-> IdleHandler]
    /\ sendPc' = [d \in DropIds |-> "none"]
    /\ visTimer' = [d \in DropIds |-> NoTimer]
    /\ valTimer' = [d \in DropIds |-> NoTimer]
    /\ UNCHANGED <<now, created, expiresAt, shown, DROP_CHANNEL_ID, ready,
                   schedTimers, sched, fired>>

\* The process dies and is started again, as far as line 499: the storage
\* is the defaults of lines 51-58 with the snapshot file loaded over them, a
\* missing or unparsable file is written over, every timer and handler is
\* lost, and the ready event is still to come.
Reboot ==
    /\ boots < MaxBoots
    /\ boots' = boots + 1
    /\ LET st == loadStorage(disk, defaultStorage(DROP_CHANNEL_ID))
       IN /\ userCounts' = st.userCounts
          /\ activeDrops' = st.activeDrops
          /\ botSettings' = st.botSettings
    /\ IF disk.file = "ok"
       THEN UNCHANGED <<disk, diskFaults>>
       ELSE SaveAll(userCounts', activeDrops', botSettings')
    /\ ready' = "login"
    /\ hs' = [h \in Handlers |-> IdleHandler]
    /\ sendPc' = [d \in DropIds |-> "none"]
    /\ visTimer' = [d \in DropIds |-> NoTimer]
    /\ valTimer' = [d \in DropIds |-> NoTimer]
    /\ schedTimers' = {}
    /\ sched' = IdleScheduler
    /\ UNCHANGED <<now, created, expiresAt, shown, DROP_CHANNEL_ID, fired>>

(* ------------------------- snapshot documents -------------------------- *)
\* The tallies {A: 3, B: 1}.
DocUserCounts == [m \in Members |-> IF m = 1 THEN 3 ELSE 1]

\* A drop an earlier run has posted and saved, with the boxes of claims
\* collected: box 0 by member 1 and, with two claims, box 2 by member 2.
DocDrop(claims) ==
    [expiresAt |-> ExpireMs,
     validBoxes |-> {0, 1},
     collectedBy |-> [b \in Boxes |-> CASE b = 0 -> 1
                                          [] b = 2 /\ claims = 2 -> 2
                                          [] OTHER -> NoMember],
     messageId |-> TRUE]

DocActiveDrops(claims) == [d \in OldDropIds |-> DocDrop(claims)]

\* A file that JSON.parse rejects.
Corrupt == [NoFile EXCEPT !.file = "corrupt"]

\* The documents a process can find at storagePath: no file, an unparsable
\* one, and documents in which each sub-tree has a value, is missing or is
\* null.
Documents ==
    {NoFile, Corrupt} \cup
    {[file |-> "ok",
      userCounts |-> IF form["userCounts"] = "value"
                     THEN DocUserCounts ELSE defaultUserCounts,
      activeDrops |-> IF form["activeDrops"] = "value"
                      THEN DocActiveDrops(claims) ELSE defaultActiveDrops,
      botSettings |-> IF form["botSettings"] = "value"
                      THEN [autoDropEnabled |-> TRUE, dropChannelId |-> 1]
                      ELSE NullSettings,
      form |-> form] :
        form \in [SubTrees -> {"value", "missing", "null"}], claims \in {1, 2}}

(* --------------------------- specification ---------------------------- *)
\* The storage and the file once the process has started on an empty
\* directory: loadStorage found no file and wrote the defaults.
Started ==
    /\ now = 0
    /\ userCounts = defaultUserCounts
    /\ activeDrops = defaultActiveDrops
    /\ created = 0
    /\ expiresAt = [d \in DropIds |-> 0]
    /\ sendPc = [d \in DropIds |-> "none"]
    /\ shown = [d \in DropIds |-> FALSE]
    /\ visTimer = [d \in DropIds |-> NoTimer]
    /\ valTimer = [d \in DropIds |-> NoTimer]
    /\ hs = [h \in Handlers |-> IdleHandler]
    /\ boots = 0
    /\ schedTimers = {}
    /\ sched = IdleScheduler
    /\ fired = 0

\* The process is up with automatic drops off: DROP_CHANNEL_ID is not set,
\* and the ready handler has found nothing to schedule.
AutoOff ==
    /\ DROP_CHANNEL_ID = NoChannel
    /\ botSettings = defaultBotSettings(NoChannel)
    /\ ready = "up"

\* What the process does while it runs, serving clicks with the handlers HS.
Running(HS) ==
    \/ \E j3 \in 0..3, j2 \in 0..2, j1 \in 0..1 : SendGiftDropStart(j3, j2, j1)
    \/ \E d \in DropIds : MessagePosted(d)
    \/ \E d \in DropIds : SendRejected(d)
    \/ \E d \in DropIds : SendGiftDropResume(d)
    \/ \E d \in DropIds : VisibilityTimer(d)
    \/ \E d \in DropIds : ValidityTimer(d)
    \/ \E h \in HS, d \in DropIds, b \in Boxes, m \in Members : Collect(h, d, b, m)
    \/ \E h \in HS, assigned \in BOOLEAN : RoleDone(h, assigned)
    \/ \E h \in HS, threw \in BOOLEAN : ReplyDone(h, threw)
    \/ \E h \in HS : EditDone(h)
    \/ \E t \in Deadlines : Advance(t)

\* One run of the process on a file system that takes every write: clicks
\* are served concurrently, each handler interleaving at its awaits.
Init ==
    /\ Started
    /\ AutoOff
    /\ disk = stringify(defaultUserCounts, defaultActiveDrops, botSettings)
    /\ diskFaults = 0

Next == Running(Handlers)

Spec == Init /\ [][Next]_vars

\* The process over restarts, on a file system where writes can fail (the
\* first one included): clicks are served one at a time.
InitCrash ==
    /\ Started
    /\ AutoOff
    /\ \E ok \in BOOLEAN :
          /\ disk = IF ok
                    THEN stringify(defaultUserCounts, defaultActiveDrops, botSettings)
                    ELSE NoFile
          /\ diskFaults = IF ok THEN MaxDiskFaults ELSE MaxDiskFaults - 1

NextCrash == Running({1}) \/ Restart

SpecCrash == InitCrash /\ [][NextCrash]_vars

\* The event loop runs a timer that is due, and time passes: the steps the
\* process takes without anybody acting on it. Commands, clicks, the
\* answers of the platform and restarts come from outside and are not
\* promised.
TimersRun ==
    /\ WF_vars(\E d \in DropIds : VisibilityTimer(d))
    /\ WF_vars(\E d \in DropIds : ValidityTimer(d))
    /\ WF_vars(\E t \in Deadlines : Advance(t))

\* The process over restarts, with its timers running and time passing.
SpecCrashFair == SpecCrash /\ TimersRun

\* The process from its start (line 499 has loaded or written the file) to
\* the ready event and on, with the owner's commands and the scheduler; the
\* drops are sent and expire, and no button is clicked.
InitSched ==
    /\ Started
    /\ DROP_CHANNEL_ID \in {NoChannel} \cup Channels
    /\ botSettings = defaultBotSettings(DROP_CHANNEL_ID)
    /\ ready = "login"
    /\ disk = stringify(defaultUserCounts, defaultActiveDrops, botSettings)
    /\ diskFaults = 0

NextSched ==
    \/ Ready
    \/ \E minutes \in SchedMinutes : ReadyResume(minutes)
    \/ \E isOwner \in BOOLEAN : ToggleAuto(isOwner)
    \/ \E isOwner \in BOOLEAN, c \in Channels, isText \in {"yes", "no", "throws"} :
          SetDropChannel(isOwner, c, isText)
    \/ \E t \in schedTimers, minutes \in SchedMinutes : SchedulerFire(t, minutes)
    \/ \E minutes \in SchedMinutes, outcome \in {"noFetch", "notText", "threw"} :
          SchedulerSkip(minutes, outcome)
    \/ \E j3 \in 0..3, j2 \in 0..2, j1 \in 0..1 : SchedulerSend(j3, j2, j1)
    \/ SchedulerSent
    \/ \E minutes \in SchedMinutes : SchedulerSlept(minutes)
    \/ \E d \in DropIds : MessagePosted(d)
    \/ \E d \in DropIds : SendRejected(d)
    \/ \E d \in DropIds : SendGiftDropResume(d)
    \/ \E d \in DropIds : VisibilityTimer(d)
    \/ \E d \in DropIds : ValidityTimer(d)
    \/ \E t \in Deadlines : Advance(t)

SpecSched == InitSched /\ [][NextSched]_vars

\* The process started on any of the documents, as far as line 499 (which
\* has loaded the file, or written the defaults over a missing or unparsable
\* one); the messages of the drops of the document are still posted. Then
\* the ready event, the owner's commands, clicks served one at a time, and
\* restarts; every write succeeds.
InitStore ==
    /\ DROP_CHANNEL_ID \in {NoChannel} \cup Channels
    /\ \E doc \in Documents :
          LET st == loadStorage(doc, defaultStorage(DROP_CHANNEL_ID))
          IN /\ userCounts = st.userCounts
             /\ activeDrops = st.activeDrops
             /\ botSettings = st.botSettings
             /\ disk = IF doc.file = "ok"
                       THEN doc
                       ELSE stringify(st.userCounts, st.activeDrops, st.botSettings)
    /\ diskFaults = 0
    /\ now = 0
    /\ created = 0
    /\ expiresAt = [d \in DropIds |->
                       IF d \in DOMAIN activeDrops THEN activeDrops[d].expiresAt ELSE 0]
    /\ shown = [d \in DropIds |-> d \in DOMAIN activeDrops]
    /\ sendPc = [d \in DropIds |-> "none"]
    /\ visTimer = [d \in DropIds |-> NoTimer]
    /\ valTimer = [d \in DropIds |-> NoTimer]
    /\ hs = [h \in Handlers |-> IdleHandler]
    /\ boots = 0
    /\ ready = "login"
    /\ schedTimers = {}
    /\ sched = IdleScheduler
    /\ fired = 0

NextStore ==
    \/ Ready
    \/ \E minutes \in SchedMinutes : ReadyResume(minutes)
    \/ \E isOwner \in BOOLEAN : ToggleAuto(isOwner)
    \/ \E isOwner \in BOOLEAN, c \in Channels, isText \in {"yes", "no", "throws"} :
          SetDropChannel(isOwner, c, isText)
    \/ \E isOwner \in BOOLEAN : ResetCounts(isOwner)
    \/ \E d \in DropIds, b \in Boxes, m \in Members : Collect(1, d, b, m)
    \/ \E assigned \in BOOLEAN : RoleDone(1, assigned)
    \/ \E threw \in BOOLEAN : ReplyDone(1, threw)
    \/ EditDone(1)
    \/ \E t \in Deadlines : Advance(t)
    \/ Reboot

SpecStore == InitStore /\ [][NextStore]_vars

\* A run of the process that started on the snapshot of an earlier run with
\* one posted drop in it (box 0 collected) and automatic drops off: the old
\* drop has no timer, new drops are created beside it, and clicks on either
\* are served one at a time; every write succeeds.
InitTwo ==
    /\ AutoOff
    /\ userCounts = defaultUserCounts
    /\ activeDrops = DocActiveDrops(1)
    /\ disk = stringify(userCounts, activeDrops, botSettings)
    /\ diskFaults = 0
    /\ now = 0
    /\ created = 0
    /\ expiresAt = [d \in DropIds |->
                       IF d \in DOMAIN activeDrops THEN activeDrops[d].expiresAt ELSE 0]
    /\ shown = [d \in DropIds |-> d \in DOMAIN activeDrops]
    /\ sendPc = [d \in DropIds |-> "none"]
    /\ visTimer = [d \in DropIds |-> NoTimer]
    /\ valTimer = [d \in DropIds |-> NoTimer]
    /\ hs = [h \in Handlers |-> IdleHandler]
    /\ boots = 0
    /\ schedTimers = {}
    /\ sched = IdleScheduler
    /\ fired = 0

NextTwo == Running({1})

SpecTwo == InitTwo /\ [][NextTwo]_vars

(* ------------------------------- claims -------------------------------- *)
\* Handler h takes a click in this step: hs'[h] holds the drop id, the box,
\* the member and the outcome of the click.
Clicked(h) == hs[h].pc = "idle" /\ hs'[h].pc # "idle"

\* The claimant recorded for box b of drop d in the active set ad.
Claimant(ad, d, b) == ad[d].collectedBy[b]

\* C1: a slot of a drop is recorded at most once. However the handlers of
\* any members interleave, a click succeeds only on a box that has no
\* claimant and records its own member there, and a box that has a claimant
\* keeps that claimant for as long as the drop is in the active set.
C1_SlotRecordedOnce ==
    [][/\ \A d \in DOMAIN activeDrops, b \in Boxes :
             (Claimant(activeDrops, d, b) # NoMember /\ d \in DOMAIN activeDrops')
                => Claimant(activeDrops', d, b) = Claimant(activeDrops, d, b)
       /\ \A h \in Handlers :
             (Clicked(h) /\ hs'[h].outcome \in Success)
                => /\ hs'[h].dropId \in DOMAIN activeDrops
                   /\ Claimant(activeDrops, hs'[h].dropId, hs'[h].boxIndex) = NoMember
                   /\ Claimant(activeDrops', hs'[h].dropId, hs'[h].boxIndex)
                         = hs'[h].member]_vars

\* A click of another member on a box that has a claimant was rejected, and
\* the box still has its first claimant.
C1_Witness ==
    \E h \in Handlers :
        /\ hs[h].outcome = "SlotAlreadyClaimed"
        /\ hs[h].dropId \in DOMAIN activeDrops
        /\ Claimant(activeDrops, hs[h].dropId, hs[h].boxIndex)
              \notin {NoMember, hs[h].member}

\* C2: in every drop of the active set a member is the claimant of at most
\* one box.
C2_OneBoxPerMember ==
    \A d \in DOMAIN activeDrops : \A b1, b2 \in Boxes :
        (b1 # b2 /\ Claimant(activeDrops, d, b1) # NoMember)
            => Claimant(activeDrops, d, b1) # Claimant(activeDrops, d, b2)

\* A member who holds a box clicked another, free box of the same drop and
\* was rejected; the box is still free.
C2_Witness ==
    \E h \in Handlers :
        /\ hs[h].outcome = "MemberAlreadyClaimed"
        /\ hs[h].dropId \in DOMAIN activeDrops
        /\ Claimant(activeDrops, hs[h].dropId, hs[h].boxIndex) = NoMember
        /\ \E b \in Boxes : Claimant(activeDrops, hs[h].dropId, b) = hs[h].member

\* C3: once a drop has left the active set no click on its id succeeds. A
\* click on an id that is not in the active set is answered DropNotFound and
\* changes neither the active set nor a tally, and an id that was generated
\* and is not in the active set never enters it again.
C3_RemovedDropNeverClaimed ==
    [][/\ \A h \in Handlers :
             (Clicked(h) /\ hs'[h].dropId \notin DOMAIN activeDrops)
                => /\ hs'[h].outcome = "DropNotFound"
                   /\ activeDrops' = activeDrops
                   /\ userCounts' = userCounts
       /\ \A d \in 1..created :
             d \notin DOMAIN activeDrops => d \notin DOMAIN activeDrops']_vars

\* A click on a drop that had been created and removed was answered
\* DropNotFound.
C3_Witness ==
    \E h \in Handlers :
        /\ hs[h].outcome = "DropNotFound"
        /\ hs[h].dropId \in 1..created
        /\ hs[h].dropId \notin DOMAIN activeDrops

\* The outcome the evaluation order of the specification gives a click of
\* member on box b of drop d at time t: DropNotFound, DropExpired,
\* SlotAlreadyClaimed, MemberAlreadyClaimed, and success last.
OrderedOutcome(ad, d, b, member, t) ==
    CASE d \notin DOMAIN ad -> {"DropNotFound"}
      [] d \in DOMAIN ad /\ t > ad[d].expiresAt -> {"DropExpired"}
      [] d \in DOMAIN ad /\ t <= ad[d].expiresAt /\ Claimant(ad, d, b) # NoMember
            -> {"SlotAlreadyClaimed"}
      [] d \in DOMAIN ad /\ t <= ad[d].expiresAt /\ Claimant(ad, d, b) = NoMember
            /\ (\E c \in Boxes : Claimant(ad, d, c) = member)
            -> {"MemberAlreadyClaimed"}
      [] OTHER -> Success

\* C4: every click is answered by the first check that fails, in the order
\* DropNotFound, DropExpired, SlotAlreadyClaimed, MemberAlreadyClaimed, and
\* succeeds only when none fails.
C4_CheckOrder ==
    [][\A h \in Handlers :
          Clicked(h) => hs'[h].outcome \in OrderedOutcome(activeDrops,
                            hs'[h].dropId, hs'[h].boxIndex, hs'[h].member, now)]_vars

\* A member who holds a box clicked a box another member holds and was
\* answered SlotAlreadyClaimed.
C4_Witness ==
    \E h \in Handlers :
        /\ hs[h].outcome = "SlotAlreadyClaimed"
        /\ hs[h].dropId \in DOMAIN activeDrops
        /\ Claimant(activeDrops, hs[h].dropId, hs[h].boxIndex)
              \notin {NoMember, hs[h].member}
        /\ \E b \in Boxes : Claimant(activeDrops, hs[h].dropId, b) = hs[h].member

\* C5: a click that succeeds on a winning box is answered Prize and adds
\* exactly 1 to the tally of its member and nothing to any other tally; a
\* click that succeeds on another box is answered Trollbox and leaves every
\* tally as it was.
C5_PrizeCountsOnce ==
    [][\A h \in Handlers :
          (Clicked(h) /\ hs'[h].outcome \in Success)
             => IF hs'[h].boxIndex \in activeDrops[hs'[h].dropId].validBoxes
                THEN /\ hs'[h].outcome = "Prize"
                     /\ userCounts' = [userCounts EXCEPT ![hs'[h].member] = @ + 1]
                ELSE /\ hs'[h].outcome = "Trollbox"
                     /\ userCounts' = userCounts]_vars

\* A member has won a prize and another member has opened a troll box.
C5_Witness ==
    \E h, g \in Handlers :
        /\ hs[h].outcome = "Prize"
        /\ userCounts[hs[h].member] = 1
        /\ hs[g].outcome = "Trollbox"
        /\ userCounts[hs[g].member] = 0

\* C6: when a click is answered Prize the snapshot file holds the tally the
\* answer reports, so that a reload right after the answer gives the tallies
\* of the memory.
C6_TallySavedBeforeReply ==
    [][\A h \in Handlers :
          (Clicked(h) /\ hs'[h].outcome = "Prize")
             => disk'.userCounts = userCounts']_vars

\* C7: no drop of the active set has its message posted while the snapshot
\* file does not hold the drop.
C7_SavedBeforePosted ==
    \A d \in DOMAIN activeDrops :
        shown[d] => (disk.file = "ok" /\ d \in DOMAIN disk.activeDrops)

\* Box b of drop d is recorded for member in the snapshot file.
Durable(file, d, b, member) ==
    /\ file.file = "ok"
    /\ d \in DOMAIN file.activeDrops
    /\ Claimant(file.activeDrops, d, b) = member

C9_TimersArmed ==
    \A d \in DOMAIN activeDrops :
        sendPc[d] \in {"done", "failed"}
            => (visTimer[d] # NoTimer /\ valTimer[d] # NoTimer)

\* A click on drop d is taken in this step after the validity window of the
\* drop has elapsed.
ClickedLate(h) == Clicked(h) /\ now > expiresAt[hs'[h].dropId]

\* C10 as stated: a click on a drop whose validity window has elapsed is
\* answered DropExpired and the drop is not in the active set afterwards,
\* also when the validity timer has fired before the click.
C10_LateClickExpired ==
    [][\A h \in Handlers :
          ClickedLate(h) => /\ hs'[h].outcome = "DropExpired"
                            /\ hs'[h].dropId \notin DOMAIN activeDrops']_vars

\* C10 as amended: such a click is answered DropExpired when the drop is
\* still in the active set, which it then leaves, and DropNotFound when the
\* drop has been removed before the click, as it is once a timer of it has
\* fired; either way the drop is not in the active set afterwards and no
\* tally changes.
C10_LateClickRejected ==
    [][\A h \in Handlers :
          ClickedLate(h)
             => /\ hs'[h].outcome = IF hs'[h].dropId \in DOMAIN activeDrops
                                    THEN "DropExpired" ELSE "DropNotFound"
                /\ hs'[h].dropId \notin DOMAIN activeDrops'
                /\ userCounts' = userCounts]_vars

\* A click came after the validity window of its drop had elapsed with the
\* drop still in the active set: it was answered DropExpired and the drop is
\* gone.
C10_Witness ==
    \E h \in Handlers :
        /\ hs[h].outcome = "DropExpired"
        /\ now > expiresAt[hs[h].dropId]
        /\ hs[h].dropId \notin DOMAIN activeDrops

\* Automatic drops are on and a drop channel is set, in the settings bs.
AutoDropsOn(bs) ==
    /\ bs # NullSettings
    /\ bs.autoDropEnabled
    /\ bs.dropChannelId # NoChannel

\* The scheduler is armed: a timer of it is pending or a firing of it is in
\* flight, which ends by arming one.
Armed(timers, firing) == timers # {} \/ firing.pc # "idle"

\* C11: a firing of the scheduler creates a drop only if automatic drops are
\* enabled and a drop channel is set at that moment; with autoDropEnabled
\* set to false by /toggle_auto no firing creates a drop.
C11_AutoDropOnlyWhenEnabled ==
    [][(sched.pc = "fetching" /\ sched'.pc = "sending")
          => AutoDropsOn(botSettings)]_vars

\* C12: when /set_drop_channel takes the settings from no channel and
\* automatic drops off to a channel and automatic drops on while the process
\* is up and the scheduler is not armed, the scheduler is armed by that step.
C12_SetChannelArms ==
    [][(/\ ready = "up"
        /\ ~AutoDropsOn(botSettings)
        /\ botSettings # NullSettings
        /\ botSettings.dropChannelId = NoChannel
        /\ AutoDropsOn(botSettings')
        /\ ~Armed(schedTimers, sched))
          => Armed(schedTimers', sched')]_vars

\* C13: the scheduler has at most one timer pending, and none while a firing
\* of it is in flight; once armed it stays armed; and every firing, whether
\* its drop was sent, failed or was skipped, ends with exactly one timer
\* pending.
C13_OneTimerAfterEveryFiring ==
    [][/\ Cardinality(schedTimers') + (IF sched'.pc # "idle" THEN 1 ELSE 0) <= 1
       /\ Armed(schedTimers, sched) => Armed(schedTimers', sched')
       /\ (fired' # fired \/ sched.pc # "idle") /\ sched'.pc = "idle"
             => Cardinality(schedTimers') = 1]_vars

\* Two firings are over, the drop of one of them was not sent, and one timer
\* of the scheduler is pending.
C13_Witness ==
    /\ fired = 2
    /\ sched.pc = "idle"
    /\ \E d \in DropIds : sendPc[d] = "failed"
    /\ Cardinality(schedTimers) = 1

\* C14: every drop of the active set has exactly 2 winning boxes, both
\* among the box indices 0..3, and keeps its winning boxes for as long as it
\* is in the active set, over clicks, timers and saves.
C14_TwoWinningBoxes ==
    [][/\ \A d \in DOMAIN activeDrops' :
             /\ activeDrops'[d].validBoxes \subseteq Boxes
             /\ Cardinality(activeDrops'[d].validBoxes) = 2
       /\ \A d \in (DOMAIN activeDrops) \cap (DOMAIN activeDrops') :
             activeDrops'[d].validBoxes = activeDrops[d].validBoxes]_vars

\* A drop whose shuffle made boxes 2 and 3 the winning ones has had a box
\* collected, and the snapshot file holds it with the same winning boxes.
C14_Witness ==
    \E d \in DOMAIN activeDrops :
        /\ activeDrops[d].validBoxes = {2, 3}
        /\ \E b \in Boxes : Claimant(activeDrops, d, b) # NoMember
        /\ d \in DOMAIN disk.activeDrops
        /\ disk.activeDrops[d].validBoxes = {2, 3}

\* C15: the tally of a member in memory never decreases from one state to
\* the next unless the step is /reset_counts, which empties the mapping.
\* Stated here for the steps before any write of the snapshot has failed.
C15_TallyNeverDecreases ==
    [][(/\ diskFaults' = MaxDiskFaults
        /\ \E m \in Members : userCounts'[m] < userCounts[m])
          => /\ boots' = boots
             /\ userCounts' = defaultUserCounts]_vars

\* C16: loadStorage defaults what the document lacks or nulls: once the
\* ready handler has loaded the file, userCounts, activeDrops and botSettings
\* are objects, and the handler reaches its decision on the scheduler
\* without a fault.
C16_LoadDefaultsEverything ==
    ready # "login" => (botSettings # NullSettings /\ ready # "faulted")

\* A timer of drop d runs in this step (a restart loses it instead).
TimerRuns(d) ==
    /\ boots' = boots
    /\ \/ visTimer[d] # NoTimer /\ visTimer'[d] = NoTimer
       \/ valTimer[d] # NoTimer /\ valTimer'[d] = NoTimer

\* C17: a timer callback that runs for a drop that is not in the active set
\* leaves the active set, the tallies, the settings and the snapshot file as
\* they are; one that runs for a drop of the active set removes that drop
\* and nothing else. So the second timer of a drop changes nothing after the
\* first.
C17_ExpiryIdempotent ==
    [][\A d \in DropIds :
          TimerRuns(d)
             => /\ activeDrops' = Remove(activeDrops, d)
                /\ userCounts' = userCounts
                /\ botSettings' = botSettings
                /\ d \notin DOMAIN activeDrops => disk' = disk]_vars

\* Both timers of a drop have run, the safety expiry timer after the
\* validity window on a drop that was gone; the write of the removal had
\* failed, and the file still holds the drop.
C17_Witness ==
    \E d \in NewDropIds :
        /\ sendPc[d] = "done"
        /\ visTimer[d] = NoTimer
        /\ valTimer[d] = NoTimer
        /\ now >= expiresAt[d]
        /\ d \notin DOMAIN activeDrops
        /\ d \in DOMAIN disk.activeDrops

\* C18: /reset_counts by the owner empties the tallies in memory and in the
\* snapshot file, so that a load gives no tally, and leaves the active drops
\* and the settings as they were.
C18_ResetCountsPersisted ==
    [][ResetCounts(TRUE)
          => /\ userCounts' = defaultUserCounts
             /\ loadStorage(disk', defaultStorage(DROP_CHANNEL_ID)).userCounts
                   = defaultUserCounts
             /\ activeDrops' = activeDrops
             /\ botSettings' = botSettings
             /\ disk'.activeDrops = activeDrops
             /\ disk'.botSettings = botSettings]_vars

\* The tallies are empty in memory and in the file although the handler of
\* a click that won a prize is still awaiting its reply: they were reset
\* after the prize.
C18_Witness ==
    \E h \in Handlers :
        /\ hs[h].outcome = "Prize"
        /\ hs[h].pc # "idle"
        /\ userCounts = defaultUserCounts
        /\ disk.file = "ok"
        /\ disk.form["userCounts"] = "value"
        /\ disk.userCounts = defaultUserCounts
        /\ activeDrops # defaultActiveDrops

\* C19: whenever the storage is written to the snapshot file, loadStorage in
\* a fresh process gives back the storage that was written: the tallies, the
\* active drops with their winning boxes and claims, and the settings. (The
\* tallies written are those of the moment of the write: a click saves
\* before it counts its prize.)
C19_SaveLoadRoundTrip ==
    [][disk' # disk
          => \E uc \in {userCounts, userCounts'} :
                /\ disk' = stringify(uc, activeDrops', botSettings')
                /\ loadStorage(disk', defaultStorage(DROP_CHANNEL_ID))
                      = [userCounts |-> uc, activeDrops |-> activeDrops',
                         botSettings |-> botSettings']]_vars

\* A restarted process has loaded what the run before it saved: tallies, a
\* drop with two claims, and settings that only /toggle_auto can have made,
\* different from the defaults of the process.
C19_Witness ==
    /\ boots = 1
    /\ ready = "up"
    /\ userCounts = DocUserCounts
    /\ activeDrops = DocActiveDrops(2)
    /\ botSettings = [autoDropEnabled |-> FALSE, dropChannelId |-> 1]
    /\ DROP_CHANNEL_ID = NoChannel
    /\ disk = stringify(userCounts, activeDrops, botSettings)

\* C20: a click that is rejected leaves claims and tallies as they are. On
\* DropNotFound, SlotAlreadyClaimed and MemberAlreadyClaimed the storage and
\* the snapshot file are unchanged; on DropExpired the drop of the click
\* leaves the active set and nothing else changes; and whatever its outcome,
\* a click on one drop leaves every other drop of the active set as it was.
C20_RejectedClickFrame ==
    [][\A h \in Handlers :
          Clicked(h) =>
             LET d == hs'[h].dropId
                 outcome == hs'[h].outcome
             IN /\ outcome \in {"DropNotFound", "SlotAlreadyClaimed",
                                "MemberAlreadyClaimed"}
                      => /\ activeDrops' = activeDrops
                         /\ userCounts' = userCounts
                         /\ botSettings' = botSettings
                         /\ disk' = disk
                /\ outcome = "DropExpired"
                      => /\ DOMAIN activeDrops' = (DOMAIN activeDrops) \ {d}
                         /\ userCounts' = userCounts
                         /\ botSettings' = botSettings
                /\ \A e \in (DOMAIN activeDrops) \ {d} :
                      /\ e \in DOMAIN activeDrops'
                      /\ activeDrops'[e] = activeDrops[e]]_vars

\* The drop of the earlier run was clicked after its validity window and
\* answered DropExpired, while a drop of this run with a box collected is
\* still in the active set.
C20_Witness ==
    \E h \in Handlers, d \in NewDropIds :
        /\ hs[h].outcome = "DropExpired"
        /\ hs[h].dropId \in OldDropIds
        /\ d \in DOMAIN activeDrops
        /\ \E b \in Boxes : Claimant(activeDrops, d, b) # NoMember

\* A drop the restarted process has loaded from the snapshot file: it is in
\* the active set of a process that has not sent it.
Reloaded(d) ==
    /\ boots > 0
    /\ sendPc[d] = "none"
    /\ d \in DOMAIN activeDrops

\* C21: after a restart, every drop loaded from the snapshot into the active
\* set is eventually removed from it, with the timers running and time
\* passing and without any member clicking it.
C21_ReloadedDropExpires ==
    \A d \in DropIds : [](Reloaded(d) => <>(d \notin DOMAIN activeDrops))

\* While the process that sent a drop keeps running, the drop with its two
\* timers armed is eventually removed from the active set.
ArmedDropExpires ==
    \A d \in DropIds :
        [](sendPc[d] = "done" => <>(d \notin DOMAIN activeDrops \/ boots > 0))

\* C22: once a sendGiftDrop call has finished, a drop it left in the active
\* set has its message reference stored and both timers pending, and a drop
\* whose send failed is neither in the active set nor in the snapshot file.
C22_FinishedSendLeavesRenderedDrop ==
    \A d \in DropIds :
        /\ (sendPc[d] \in {"done", "failed"} /\ d \in DOMAIN activeDrops)
              => /\ activeDrops[d].messageId
                 /\ visTimer[d] # NoTimer
                 /\ valTimer[d] # NoTimer
        /\ sendPc[d] = "failed"
              => /\ d \notin DOMAIN activeDrops
                 /\ d \notin DOMAIN disk.activeDrops

====
